---- MODULE Spec2Model ----
(***************************************************************************)
(* The authenticated API client of rag-frontend (src/services/api.ts), the *)
(* auth service over localStorage (services/auth.ts) and the zustand       *)
(* session store (store/authStore.ts).                                     *)
(*                                                                         *)
(* A step of the model is one task of the browser's event loop: a user     *)
(* action, or the arrival of an HTTP response together with every promise  *)
(* continuation it resolves (the axios interceptors, then the methods of   *)
(* apiClient, authService and useAuthStore awaiting it), which run as      *)
(* microtasks before any other event is handled.                           *)
(***************************************************************************)
EXTENDS Integers, Sequences, FiniteSets, Bags, TLC

\* Concurrent requests the application has in flight through the client.
MaxInFlight == 2

-----------------------------------------------------------------------------
(* Values *)

\* JavaScript null: localStorage.getItem of a missing key, User | null.
Null == "<null>"

\* JavaScript truthiness of a string | null (!!s, if (s)).
Truthy(s) == s # Null /\ s # ""

\* User profiles (types: User), named by their username.
Users == {"alice", "bob"}

\* Tokens the backend issues on login/register and on refresh.
AccessTokens == {"a1", "a2"}
RefreshTokens == {"r1"}

\* JSON.stringify(user) of a User object.
JSONStringify(u) == "{\"username\":\"" \o u \o "\"}"

\* JSON.parse(s): [throws |-> TRUE] on a syntax error, else the value.
JSONParse(s) ==
    IF \E u \in Users : JSONStringify(u) = s
    THEN [throws |-> FALSE, value |-> CHOOSE u \in Users : JSONStringify(u) = s]
    ELSE IF s = "null"
    THEN [throws |-> FALSE, value |-> Null]
    ELSE [throws |-> TRUE, value |-> Null]

\* What the three keys of localStorage may hold when the page loads: nothing,
\* what an earlier session wrote, or a value the application never writes
\* (getCurrentUser is written to survive an unparsable entry).
StoredAccess == {Null, "", "a0"}
StoredRefresh == {Null, "", "r0"}
StoredUser == {Null, "{bad", JSONStringify("bob")}

\* HTTP statuses of a failed response; 0 stands for no response at all
\* (a transport error: error.response is undefined).
ErrorStatuses == {401, 500, 0}

\* Response bodies.  AuthResponse {user, tokens} for login/register,
\* {access} for refresh; other endpoints' bodies are opaque to the client.
NoData == [user |-> Null, access |-> Null, refresh |-> Null]
AuthResponses ==
    [user : {"alice"}, access : AccessTokens, refresh : RefreshTokens]
RefreshResponses == [user : {Null}, access : AccessTokens, refresh : {Null}]

\* Operations issued through apiClient: the two auth calls and any other
\* endpoint (listFiles, sendMessage, ...), which differ only in their caller.
Ops == {"login", "register", "get"}

Url(op) ==
    CASE op = "login" -> "/auth/login/"
      [] op = "register" -> "/auth/register/"
      [] OTHER -> "/files/"

\* The Authorization header value, Null when the header is absent.
Bearer(t) == "Bearer " \o t

\* An HTTP request put on the wire.
NoMsg == [url |-> "-", auth |-> Null, body |-> Null, via |-> "-"]

\* What a call through apiClient settles with: the response body, or the
\* rejection (the axios error of attempt 1 or 2, or the refresh call's error).
NoOutcome == [kind |-> "none", src |-> "-", attempt |-> 0, status |-> 0, data |-> NoData]
Resolved(n, d) == [kind |-> "value", src |-> "request", attempt |-> n, status |-> 200, data |-> d]
Rejected(n, s) == [kind |-> "error", src |-> "request", attempt |-> n, status |-> s, data |-> NoData]
RefreshError(s) == [kind |-> "error", src |-> "refresh", attempt |-> 0, status |-> s, data |-> NoData]

\* A request in flight (its axios config, originalRequest): pc is "sent"
\* (awaiting the backend's response to the request) or "refreshing" (awaiting
\* the refresh call's response); retry is originalRequest._retry; sends and
\* refreshes count the request's transmissions and the refresh calls made
\* for it.  NoReq stands for no request.
NewRequest(op) ==
    [pc |-> "sent", op |-> op, retry |-> FALSE, sends |-> 1, refreshes |-> 0]
NoReq == [pc |-> "none", op |-> "-", retry |-> FALSE, sends |-> 0, refreshes |-> 0]

-----------------------------------------------------------------------------
VARIABLES
    \* services/api.ts, services/auth.ts, store/authStore.ts
    localStorage,   \* [access_token, refresh_token, user]: string or Null
    authState,      \* useAuthStore: [user, isAuthenticated]
    location,       \* window.location.href
    requests,       \* the bag of requests in flight
    event,          \* the task of this step: what happened (name, status,
                    \* data) and the request it concerned, before the
                    \* step and after it (NoReq once its call has settled)
    wire,           \* the HTTP request this step put on the wire, or NoMsg
    delivered,      \* what this step settled a call with, or NoOutcome
    \* components/FileList/FileList.tsx and Dashboard.tsx
    backend,        \* the ids of the files the backend has
    files,          \* files and filesRef.current: the last-fetched results
    page,           \* page and pageRef.current
    totalPages,
    loading,
    error,
    filter,
    renamingId,     \* id of the file being renamed, or NoFile
    renameValue,
    pendingDeleteId,\* id of the file awaiting confirmation, or NoFile
    selectedFiles,  \* Dashboard: the selected file ids
    calls,          \* the bag of apiClient calls of the file list in flight
    fstep,          \* the task of this step: its name and the call it
                    \* issued or, for a response, the call it settled
    latest,         \* the list call issued last and what it was answered
                    \* with, where the order of the list calls is followed
    \* components/FileUpload/FileUpload.tsx and Dashboard.tsx
    uploading,
    progress,
    dragActive,
    uploads,        \* the bag of handleFile invocations awaiting a stage
    uploadError,    \* Dashboard: the messages on screen
    uploadSuccess,
    timers,         \* Dashboard: the bag of pending setTimeout callbacks
    ustep,          \* the task of this step: its name, the file, the call
                    \* it issued and the callbacks it invoked
    \* components/Chat/ChatInterface.tsx and Dashboard.tsx
    messages,       \* the sequence of Message
    input,
    chatLoading,    \* ChatInterface's loading
    currentConversationId,  \* a conversation id, or NoConversation
    conversationId, \* Dashboard: the conversationId it passes down
    streaming,      \* the reveal interval of streamingIntervalRef and the
                    \* index, text and message id of its closure, or NoStreaming
    sends,          \* the bag of handleSend calls awaiting sendMessage
    histories,      \* the bag of loadConversationHistory calls in flight
    chatMounted,    \* the chat view is on screen
    now,            \* milliseconds elapsed: Date.now() is Epoch + now
    serverSeq,      \* chat exchanges the backend has stored
    beforeSend,     \* the messages just before the last send that went out
    replies,        \* the full text of every reply received, by message id
    cresponse,      \* what the response of this step carried and what the
                    \* step passed to onConversationChange
    cstep           \* the task of this step: its name and the request it
                    \* issued or, for a response, settled

authVars == <<localStorage, authState, location, requests, event, wire, delivered>>

fileVars == <<backend, files, page, totalPages, loading, error, filter,
              renamingId, renameValue, pendingDeleteId, selectedFiles,
              calls, fstep>>

uploadVars == <<uploading, progress, dragActive, uploads, uploadError,
                uploadSuccess, timers, ustep>>

chatVars == <<messages, input, chatLoading, currentConversationId,
              conversationId, streaming, sends, histories, chatMounted,
              now, serverSeq, beforeSend, replies, cresponse, cstep>>

vars == <<authVars, fileVars, uploadVars, chatVars, latest>>

Event(n, q, q2, s, d) ==
    [name |-> n, before |-> q, after |-> q2, status |-> s, data |-> d]

One(q) == SetToBag({q})

-----------------------------------------------------------------------------
(* services/auth.ts *)

\* Faulty variant: the user profile is not written.
setAuthData_WithoutUser(ls, data) ==
    [access_token |-> data.access,
     refresh_token |-> data.refresh,
     user |-> ls.user]

setAuthData(ls, data) ==
    [access_token |-> data.access,
     refresh_token |-> data.refresh,
     user |-> JSONStringify(data.user)]

\* Faulty variant: the cached user is left behind.
removeCredentials_KeepsUser(ls) ==
    [access_token |-> Null, refresh_token |-> Null, user |-> ls.user]

\* Faulty variant: the refresh token is left behind.
removeCredentials_KeepsRefresh(ls) ==
    [access_token |-> Null, refresh_token |-> ls.refresh_token, user |-> Null]

\* The three removeItem calls of authService.logout and of the interceptor.
removeCredentials(ls) ==
    [access_token |-> Null, refresh_token |-> Null, user |-> Null]

\* Faulty variant: a cached user is required as well.
isAuthenticated_NeedsUser(ls) == Truthy(ls.access_token) /\ Truthy(ls.user)

isAuthenticated(ls) == Truthy(ls.access_token)

getCurrentUser(ls) ==
    IF ~Truthy(ls.user) THEN Null
    ELSE LET p == JSONParse(ls.user)
         IN  IF p.throws THEN Null
             ELSE IF p.value = Null THEN Null   \* user.username throws, caught
             ELSE p.value

\* useAuthStore.checkAuth (and the store's initial value): re-derive from storage.
StateFromStorage(ls) ==
    [user |-> getCurrentUser(ls), isAuthenticated |-> isAuthenticated(ls)]

-----------------------------------------------------------------------------
(* services/api.ts *)

\* Faulty variant: the stored token is never attached.
RequestInterceptor_NoToken(auth, ls) == auth

\* The request interceptor: the Authorization header the request leaves
\* with, given the header its config already carries.
RequestInterceptor(auth, ls) ==
    IF Truthy(ls.access_token) THEN Bearer(ls.access_token) ELSE auth

\* The refresh call of the response interceptor: plain axios.post, which has
\* no interceptors, so no Authorization header.
RefreshCall(ls) ==
    [url |-> "/auth/refresh/", auth |-> Null, body |-> ls.refresh_token, via |-> "axios"]

\* The request as this.client sends it (first send and re-issue alike).
ClientCall(op, auth, ls) ==
    [url |-> Url(op), auth |-> RequestInterceptor(auth, ls), body |-> Null, via |-> "client"]

\* Faulty variant: the refresh call is made without testing the token.
HasRefreshToken_Untested(ls) == TRUE

\* localStorage.getItem('refresh_token') tested by if (refreshToken).
HasRefreshToken(ls) == Truthy(ls.refresh_token)

\* Faulty variant: the refreshed access token is not persisted.
StoreAccess_Skipped(ls, access) == ls

\* localStorage.setItem('access_token', access) after a successful refresh.
StoreAccess(ls, access) == [ls EXCEPT !.access_token = access]

\* Faulty variant: the request is not marked as retried.
MarkRetried_Forgotten(q) == q

\* originalRequest._retry after the interceptor has taken the 401 branch.
MarkRetried(q) == [q EXCEPT !.retry = TRUE]

\* Faulty variant: any failed response starts a refresh.
ShouldRefresh_AnyError(q, status) == ~q.retry

\* The test of line 63: a 401 on a request not yet retried.
ShouldRefresh(q, status) == status = 401 /\ ~q.retry

\* Faulty variant: the returned user is adopted without the flag.
LoginSettled_UserOnly(st, o) ==
    IF o.kind = "value"
    THEN [user |-> o.data.user, isAuthenticated |-> st.isAuthenticated]
    ELSE st

\* Faulty variant: a failed login or register signs the user out.
LoginSettled_ClearsOnFailure(st, o) ==
    IF o.kind = "value"
    THEN [user |-> o.data.user, isAuthenticated |-> TRUE]
    ELSE [user |-> Null, isAuthenticated |-> FALSE]

\* useAuthStore.login / register once authService's call has settled with
\* o: adopt the returned user, or rethrow and leave the state alone.
LoginSettled(st, o) ==
    IF o.kind = "value"
    THEN [user |-> o.data.user, isAuthenticated |-> TRUE]
    ELSE st

\* The caller's continuation once the call of request q settles with
\* outcome o, ls being localStorage as the interceptor left it:
\* authService.login / register persist a successful payload and
\* useAuthStore adopts its user; a rejection is rethrown through every layer.
Deliver(q, o, ls) ==
    LET authCall == q.op \in {"login", "register"}
    IN  /\ localStorage' = IF authCall /\ o.kind = "value"
                           THEN setAuthData(ls, o.data)
                           ELSE ls
        /\ authState' = IF authCall THEN LoginSettled(authState, o) ELSE authState
        /\ requests' = requests (-) One(q)
        /\ delivered' = o

\* apiClient.<op>(): this.client sends the request.
Request(op) ==
    /\ BagCardinality(requests) < MaxInFlight
    /\ requests' = requests (+) One(NewRequest(op))
    /\ wire' = ClientCall(op, Null, localStorage)
    /\ event' = Event("request", NoReq, NewRequest(op), 0, NoData)
    /\ delivered' = NoOutcome
    /\ UNCHANGED <<localStorage, authState, location>>

\* A 2xx response: the interceptor's success handler returns it.
ResponseSuccess(q, d) ==
    /\ q.pc = "sent"
    /\ d \in (IF q.op = "get" THEN {NoData} ELSE AuthResponses)
    /\ Deliver(q, Resolved(q.sends, d), localStorage)
    /\ wire' = NoMsg
    /\ event' = Event("response", q, NoReq, 200, d)
    /\ UNCHANGED location

\* A failed response: the interceptor's error handler.
ResponseError(q, status) ==
    /\ q.pc = "sent"
    /\ UNCHANGED location
    /\ IF ShouldRefresh(q, status)
       THEN IF HasRefreshToken(localStorage)
            THEN LET q2 == [MarkRetried(q) EXCEPT !.pc = "refreshing",
                                                  !.refreshes = @ + 1]
                 IN  /\ requests' = (requests (-) One(q)) (+) One(q2)
                     /\ wire' = RefreshCall(localStorage)
                     /\ event' = Event("response", q, q2, status, NoData)
                     /\ delivered' = NoOutcome
                     /\ UNCHANGED <<localStorage, authState>>
            ELSE /\ Deliver(q, Rejected(q.sends, status), localStorage)
                 /\ wire' = NoMsg
                 /\ event' = Event("response", q, NoReq, status, NoData)
       ELSE /\ Deliver(q, Rejected(q.sends, status), localStorage)
            /\ wire' = NoMsg
            /\ event' = Event("response", q, NoReq, status, NoData)

\* The refresh call succeeds: store the access token, re-issue the request.
RefreshSuccess(q, d) ==
    /\ q.pc = "refreshing"
    /\ LET ls == StoreAccess(localStorage, d.access)
           q2 == [q EXCEPT !.pc = "sent", !.sends = @ + 1]
       IN  /\ localStorage' = ls
           /\ wire' = ClientCall(q.op, Bearer(d.access), ls)
           /\ requests' = (requests (-) One(q)) (+) One(q2)
           /\ event' = Event("refreshResponse", q, q2, 200, d)
    /\ delivered' = NoOutcome
    /\ UNCHANGED <<authState, location>>

\* The refresh call fails: the catch block.
RefreshFailure(q, status) ==
    /\ q.pc = "refreshing"
    /\ location' = "/login"
    /\ Deliver(q, RefreshError(status), removeCredentials(localStorage))
    /\ wire' = NoMsg
    /\ event' = Event("refreshResponse", q, NoReq, status, NoData)

-----------------------------------------------------------------------------
(* store/authStore.ts: the synchronous entry points *)

Quiet(n, d) ==
    /\ event' = Event(n, NoReq, NoReq, 0, d)
    /\ wire' = NoMsg
    /\ delivered' = NoOutcome

Logout ==
    /\ localStorage' = removeCredentials(localStorage)
    /\ authState' = [user |-> Null, isAuthenticated |-> FALSE]
    /\ Quiet("logout", NoData)
    /\ UNCHANGED <<requests, location>>

CheckAuth ==
    /\ authState' = StateFromStorage(localStorage)
    /\ Quiet("checkAuth", NoData)
    /\ UNCHANGED <<localStorage, requests, location>>

SetUser(u) ==
    /\ authState' = [user |-> u, isAuthenticated |-> u # Null]
    /\ Quiet("setUser", [NoData EXCEPT !.user = u])
    /\ UNCHANGED <<localStorage, requests, location>>

\* The document is loaded anew (the navigation to /login completing, or a
\* reload): pending requests die with the old document and the store is
\* created again from storage.
PageLoad ==
    /\ authState' = StateFromStorage(localStorage)
    /\ requests' = EmptyBag
    /\ Quiet("pageLoad", NoData)
    /\ UNCHANGED <<localStorage, location>>

-----------------------------------------------------------------------------
(* types/index.ts and the backend's file listing, as the file list sees them *)

FileIds == {1, 2}

\* null, for pendingDeleteId and renamingId.
NoFile == 0

\* FileAsset.status, as the backend reports it in a listing.
Statuses == {"uploaded", "processing", "ready", "failed"}

\* FileAsset.file_type and FileAsset.filename of each file.
FileType(id) == IF id = 1 THEN "pdf" ELSE "jpeg"
Filename(id) == IF id = 1 THEN "report.pdf" ELSE "scan.JPG"

FileAsset(id, status) == [id |-> id, status |-> status]

\* page_size of GET /files/ (listFiles' default is 20, scaled down).
PageSize == 1

Rank(b, i) == Cardinality({j \in b : j <= i})

\* The ids on page p of the listing of the files b.
PageIds(b, p) ==
    {j \in b : Rank(b, j) > (p - 1) * PageSize /\ Rank(b, j) <= p * PageSize}

PageCount(b) ==
    IF b = {} THEN 1 ELSE (Cardinality(b) + PageSize - 1) \div PageSize

\* GET /files/?page=p: the responses {results, page, total_pages} the
\* backend can give when it has the files b, whatever their statuses.
FileListResponses(b, p) ==
    {[results |-> {FileAsset(i, st[i]) : i \in PageIds(b, p)},
      page |-> p,
      total_pages |-> PageCount(b)] : st \in [PageIds(b, p) -> Statuses]}

\* error.message of a failed apiClient call.
ErrorMessages == {"Network Error"}

\* JavaScript's a || b on strings.
OrElse(a, b) == IF a # "" THEN a ELSE b

\* String.prototype.trim on the values a rename field takes here.
Trim(v) == IF v = " " THEN "" ELSE v

\* An apiClient call of the file list in flight.  page is the page number
\* the handler holds (the argument of loadFiles, or the page captured by
\* confirmDelete / submitRename for the reload that follows); f the file of
\* a delete or rename, or the file confirmDelete passes to onFileDelete after
\* the list call it awaits; then names the handler awaiting a list call:
\* "delete" (confirmDelete), "rename" (submitRename) or "-".
Call(kind, p, f, then) == [kind |-> kind, page |-> p, f |-> f, then |-> then]
NoCall == Call("none", 0, NoFile, "-")

\* The list call issued last, and the response it got: none yet (page 0),
\* a failure (page -1), or the FileListResponse.
Latest(c, response) == [call |-> c, response |-> response]
NoListResponse == [results |-> {}, page |-> 0, total_pages |-> 0]
ListFailure == [results |-> {}, page |-> -1, total_pages |-> 0]

FileStep(name, c) == [name |-> name, call |-> c]

\* The dashboard is not on screen.
FileListUnmounted ==
    /\ backend = {}
    /\ files = {}
    /\ page = 1
    /\ totalPages = 1
    /\ loading = TRUE
    /\ error = ""
    /\ filter = "all"
    /\ renamingId = NoFile
    /\ renameValue = ""
    /\ pendingDeleteId = NoFile
    /\ selectedFiles = {}
    /\ calls = EmptyBag
    /\ fstep = FileStep("-", NoCall)
    /\ latest = Latest(NoCall, NoListResponse)

-----------------------------------------------------------------------------
(* the browser's File objects and the upload endpoints, as FileUpload sees them *)

\* const maxSize (FileUpload.tsx:49).
maxSize == 10 * 1024 * 1024

allowedTypes ==
    {"application/pdf", "text/plain",
     "application/vnd.openxmlformats-officedocument.wordprocessingml.document",
     "image/png", "image/jpeg"}

\* File: {name, type, size}.
File(name, type, size) == [name |-> name, type |-> type, size |-> size]
NoFileChosen == File("", "", 0)

\* The files the user chooses from: two the validation accepts (one of
\* exactly maxSize bytes), one too large, one of a type not allowed, one both.
ChosenFiles ==
    {File("report.pdf", "application/pdf", 1024),
     File("scan.JPG", "image/jpeg", maxSize),
     File("huge.pdf", "application/pdf", maxSize + 1),
     File("tool.exe", "application/x-msdownload", 1024),
     File("huge.exe", "application/x-msdownload", maxSize + 1)}

\* file.name.split('.').pop()?.toLowerCase() || '' on the names above.
Extension(name) ==
    CASE name = "report.pdf" -> "pdf"
      [] name = "scan.JPG"   -> "jpg"
      [] name = "huge.pdf"   -> "pdf"
      [] OTHER               -> "exe"

\* fileTypeMap[fileExtension] || fileExtension.
fileTypeOf(name) ==
    LET e == Extension(name)
    IN  CASE e = "jpg" -> "jpeg"
          [] OTHER     -> e

\* xhr.status of a load event.
XhrStatuses == {200, 204, 403}

\* A request FileUpload put on the wire: the endpoint and what it carries.
UploadCall(url, file) ==
    [url |-> url, filename |-> file.name,
     file_type |-> IF url = "-" THEN "" ELSE fileTypeOf(file.name),
     size |-> file.size]
NoUploadCall == UploadCall("-", NoFileChosen)

\* The FileAsset POST /files/finalize/ returns for a file.
FinalizedAsset(file) ==
    FileAsset(IF file.name = Filename(1) THEN 1 ELSE 2, "uploaded")

\* An invocation of handleFile suspended at an await: stage is "presign",
\* "transfer" or "finalize".
Upload(file, stage) == [file |-> file, stage |-> stage]

\* status: xhr.status of the load event handled, 0 for any other task.
UploadStep(name, file, status, call, err, asset) ==
    [name |-> name, file |-> file, status |-> status, call |-> call,
     onError |-> err, onUploadComplete |-> asset]

\* No callback invoked.
NoAsset == FileAsset(NoFile, "-")

\* The upload box is idle.
FileUploadIdle ==
    /\ uploading = FALSE
    /\ progress = 0
    /\ dragActive = FALSE
    /\ uploads = EmptyBag
    /\ uploadError = ""
    /\ uploadSuccess = ""
    /\ timers = EmptyBag
    /\ ustep = UploadStep("-", NoFileChosen, 0, NoUploadCall, Null, NoAsset)

-----------------------------------------------------------------------------
(* types/index.ts and the chat endpoints, as ChatInterface sees them *)

\* undefined, for a conversation id.
NoConversation == 0
ConversationIds == {1, 2}

\* Date.now() when the page was loaded; server-assigned message ids are
\* database keys, far below it.
Epoch == 1000

\* Message: {id, role, content, file_ids}.
Message(id, role, content, fileIds) ==
    [id |-> id, role |-> role, content |-> content, file_ids |-> fileIds]

\* What the user types.
InputTexts == {" ", "hi"}

\* String.prototype.trim on the values the input takes.
TrimInput(v) == IF v = " " THEN "" ELSE v

\* The assistant's replies: none, one shorter than a reveal step, one of 25
\* characters.
LongText == "The report covers Q3 2024"
FullTexts == {"", "Yes.", LongText}

TextLength(t) ==
    CASE t = ""       -> 0
      [] t = "Yes."   -> 4
      [] t = LongText -> 25

\* fullText.slice(0, n) for the replies above and the n the reveal reaches.
Slice(t, n) ==
    IF n >= TextLength(t) THEN t
    ELSE CASE n = 0  -> ""
           [] n = 10 -> "The report"
           [] n = 20 -> "The report covers Q3"

\* ChatResponse: {conversation_id, message, response}; the backend stores
\* the user message and the reply under the next two ids.
ChatResponse(seq, conv, text, fileIds, fullText) ==
    [conversation_id |-> conv,
     message |-> Message(2 * seq + 1, "user", text, fileIds),
     response |-> Message(2 * seq + 2, "assistant", fullText, {})]

ChatCall(url, text, conv, fileIds) ==
    [url |-> url, message |-> text, conversation_id |-> conv, file_ids |-> fileIds]
NoChatCall == ChatCall("-", "", NoConversation, {})

\* A handleSend suspended at await apiClient.sendMessage: the temporary
\* message, and the currentConversationId and selectedFileIds of its closure.
Send(temp, conv, fileIds) == [temp |-> temp, conv |-> conv, fileIds |-> fileIds]

Streaming(id, index, text) == [id |-> id, index |-> index, text |-> text]
NoStreaming == Streaming(0, 0, "")

ChatStep(name, call) == [name |-> name, call |-> call]

\* The conversation id of a ChatResponse or the messages of a Conversation,
\* and the ids handed to onConversationChange.
Received(conv, msgs, notified) ==
    [conversation_id |-> conv, messages |-> msgs,
     onConversationChange |-> notified]
NothingReceived == Received(NoConversation, <<>>, <<>>)

\* The chat view as first rendered.
ChatFirstRender ==
    /\ messages = <<>>
    /\ input = ""
    /\ chatLoading = FALSE
    /\ currentConversationId = NoConversation
    /\ conversationId = NoConversation
    /\ streaming = NoStreaming
    /\ sends = EmptyBag
    /\ histories = EmptyBag
    /\ chatMounted = TRUE
    /\ now = 0
    /\ serverSeq = 0
    /\ beforeSend = <<>>
    /\ replies = <<>>
    /\ cresponse = NothingReceived
    /\ cstep = ChatStep("-", NoChatCall)

-----------------------------------------------------------------------------
Init ==
    /\ localStorage \in [access_token : StoredAccess,
                         refresh_token : StoredRefresh,
                         user : StoredUser]
    /\ authState = StateFromStorage(localStorage)
    /\ location = "/"
    /\ requests = EmptyBag
    /\ event = Event("pageLoad", NoReq, NoReq, 0, NoData)
    /\ wire = NoMsg
    /\ delivered = NoOutcome
    /\ FileListUnmounted
    /\ FileUploadIdle
    /\ ChatFirstRender

Next ==
    \/ \E op \in Ops : Request(op) /\ UNCHANGED <<fileVars, uploadVars, chatVars, latest>>
    \/ \E q \in BagToSet(requests), d \in AuthResponses \cup {NoData} :
          ResponseSuccess(q, d) /\ UNCHANGED <<fileVars, uploadVars, chatVars, latest>>
    \/ \E q \in BagToSet(requests), s \in ErrorStatuses :
          ResponseError(q, s) /\ UNCHANGED <<fileVars, uploadVars, chatVars, latest>>
    \/ \E q \in BagToSet(requests), d \in RefreshResponses :
          RefreshSuccess(q, d) /\ UNCHANGED <<fileVars, uploadVars, chatVars, latest>>
    \/ \E q \in BagToSet(requests), s \in ErrorStatuses :
          RefreshFailure(q, s) /\ UNCHANGED <<fileVars, uploadVars, chatVars, latest>>
    \/ Logout /\ UNCHANGED <<fileVars, uploadVars, chatVars, latest>>
    \/ CheckAuth /\ UNCHANGED <<fileVars, uploadVars, chatVars, latest>>
    \/ \E u \in Users \cup {Null} : SetUser(u) /\ UNCHANGED <<fileVars, uploadVars, chatVars, latest>>
    \/ PageLoad /\ UNCHANGED <<fileVars, uploadVars, chatVars, latest>>

Spec == Init /\ [][Next]_vars

-----------------------------------------------------------------------------
(* Properties of the Authenticated Request Client *)

\* The step just taken was the backend's response, with the given status, to
\* a request.
Answered(status) == event.name = "response" /\ event.status = status

\* The step just taken was the refresh endpoint's response.
RefreshAnswered == event.name = "refreshResponse"

NoCredentials == [access_token |-> Null, refresh_token |-> Null, user |-> Null]

\* A 401 on the first send, with a refresh token stored: one refresh call
\* carrying that token, and nothing settled yet.
C1_RefreshIssued ==
    (Answered(401)' /\ event'.before.sends = 1
        /\ localStorage.refresh_token \notin {Null, ""})
    => /\ wire'.url = "/auth/refresh/"
       /\ wire'.body = localStorage.refresh_token
       /\ event'.after.pc = "refreshing"
       /\ event'.after.refreshes = 1
       /\ event'.after.sends = 1
       /\ event'.after.op = event'.before.op
       /\ delivered' = NoOutcome

\* The refresh succeeds (the token was valid): the returned access token is
\* stored and the original request goes out a second time carrying it.
C1_Reissued ==
    (RefreshAnswered /\ event.status = 200)
    => /\ localStorage.access_token = event.data.access
       /\ wire.url = Url(event.before.op)
       /\ wire.via = "client"
       /\ wire.auth = Bearer(event.data.access)
       /\ event.after.pc = "sent"
       /\ event.after.sends = 2
       /\ event.after.refreshes = 1
       /\ event.after.op = event.before.op
       /\ delivered = NoOutcome

\* The re-issued request is answered with anything but a second 401: the
\* caller receives that answer, and nothing more is sent.
C1_Forwarded ==
    (event.name = "response" /\ event.status # 401 /\ event.before.sends = 2)
    => /\ delivered = IF event.status = 200
                      THEN Resolved(2, event.data)
                      ELSE Rejected(2, event.status)
       /\ event.before.refreshes = 1
       /\ event.after = NoReq
       /\ wire = NoMsg

\* C1: a request that receives 401 once while a valid refresh token is
\* stored causes exactly one refresh call, the returned access token is
\* stored, the request is re-issued exactly once with the new token, and the
\* caller receives the result of the re-issued request.
C1_RefreshAndReplay ==
    /\ [][C1_RefreshIssued]_vars
    /\ [](C1_Reissued /\ C1_Forwarded)

C1_Witness ==
    /\ Answered(200) /\ event.before.sends = 2
    /\ delivered = Resolved(2, event.data)
    /\ wire = NoMsg

\* Every request in flight, and the one just handled.
Seen == BagToSet(requests) \cup {event.before, event.after}

\* C2: a request is sent to the backend at most twice and causes at most one
\* refresh call, whatever the backend answers; the answer to the second send
\* always settles the call (a 401 is propagated), so there is no retry loop.
C2_AtMostOneRefresh ==
    /\ \A q \in Seen : q.sends <= 2 /\ q.refreshes <= 1
    /\ (event.name = "response" /\ event.before.sends = 2)
       => /\ event.after = NoReq
          /\ wire = NoMsg
          /\ delivered.kind # "none"
          /\ event.status = 401 => delivered = Rejected(2, 401)

C2_Witness ==
    /\ Answered(401) /\ event.before.sends = 2
    /\ delivered = Rejected(2, 401)

\* C3: a 401 while no refresh token is stored (absent or empty): no refresh
\* call, no re-issue, the credential store is untouched and the caller
\* receives that 401.
C3_NoRefreshToken ==
    [][(Answered(401)' /\ localStorage.refresh_token \in {Null, ""})
       => /\ wire' = NoMsg
          /\ event'.after = NoReq
          /\ requests' = requests (-) One(event'.before)
          /\ localStorage' = localStorage
          /\ location' = location
          /\ delivered' = Rejected(event'.before.sends, 401)]_vars

C3_Witness ==
    /\ Answered(401)
    /\ delivered = Rejected(1, 401)
    /\ localStorage.access_token = "a0"
    /\ localStorage.refresh_token = Null

\* C4: the refresh call fails: the three credentials are removed, the page
\* is sent to /login, the original request is not re-issued and the caller
\* receives the refresh call's error, not the 401.
C4_RefreshFailure ==
    (RefreshAnswered /\ event.status # 200)
    => /\ localStorage = NoCredentials
       /\ location = "/login"
       /\ wire = NoMsg
       /\ event.after = NoReq
       /\ event.before.sends = 1
       /\ delivered = RefreshError(event.status)

C4_Witness ==
    /\ RefreshAnswered /\ event.status = 0
    /\ delivered = RefreshError(0)
    /\ location = "/login"
    /\ localStorage = NoCredentials

\* C5: a failed response other than 401 (a transport error included) is
\* handed to the caller as it is: no refresh call, no re-issue, and the
\* credential store and the location are untouched.
C5_OtherErrors ==
    [][(event'.name = "response" /\ event'.status \notin {200, 401})
       => /\ delivered' = Rejected(event'.before.sends, event'.status)
          /\ wire' = NoMsg
          /\ event'.after = NoReq
          /\ requests' = requests (-) One(event'.before)
          /\ localStorage' = localStorage
          /\ location' = location]_vars

C5_Witness ==
    /\ Answered(500)
    /\ delivered = Rejected(1, 500)
    /\ localStorage.refresh_token = "r0"
    /\ location = "/"

\* The statement of C6 as the spec words it: every request the client puts
\* on the wire, the refresh call included, carries the stored access token.
C6_EveryRequestCarriesToken ==
    wire # NoMsg
    => wire.auth = IF localStorage.access_token \notin {Null, ""}
                   THEN Bearer(localStorage.access_token)
                   ELSE Null

\* C6 (amended): a request sent through the client's axios instance carries
\* Bearer <t>, t the access token in the store when it is sent (on a
\* re-issue, the token the refresh just returned), and no Authorization
\* header when the store holds none or an empty one; the refresh call itself
\* is sent without an Authorization header.
C6_ClientRequestsCarryToken ==
    wire # NoMsg
    => /\ wire.via = "client"
          => /\ wire.auth = IF localStorage.access_token \notin {Null, ""}
                            THEN Bearer(localStorage.access_token)
                            ELSE Null
             /\ RefreshAnswered => wire.auth = Bearer(event.data.access)
       /\ wire.via # "client"
          => /\ wire.url = "/auth/refresh/"
             /\ wire.auth = Null

C6_Witness ==
    /\ wire.url = "/auth/refresh/" /\ wire.auth = Null
    /\ localStorage.access_token = "a0"

-----------------------------------------------------------------------------
(* Properties of the auth service and the session store *)

AuthOps == {"login", "register"}

C7_Persisted ==
    (Answered(200) /\ event.before.op \in AuthOps)
    => LET d == event.data
       IN  /\ localStorage.access_token = d.access
           /\ localStorage.refresh_token = d.refresh
           /\ localStorage.user = JSONStringify(d.user)
           /\ delivered = Resolved(event.before.sends, d)
           /\ isAuthenticated(localStorage)
           /\ getCurrentUser(localStorage) = d.user
           /\ authState = [user |-> d.user, isAuthenticated |-> TRUE]

C7_CheckAuthNext ==
    (Answered(200) /\ event.before.op \in AuthOps /\ event'.name = "checkAuth")
    => /\ authState' = [user |-> event.data.user, isAuthenticated |-> TRUE]
       /\ wire' = NoMsg
       /\ requests' = requests
       /\ localStorage' = localStorage

\* C7: a successful login or register with payload {user, tokens} leaves the
\* store holding tokens.access, tokens.refresh and the serialized user,
\* returns that payload, makes isAuthenticated() true, and a checkAuth that
\* follows yields {user, isAuthenticated: true} with no network call.
C7_LoginPersists ==
    /\ []C7_Persisted
    /\ [][C7_CheckAuthNext]_vars

C7_Witness ==
    /\ event.name = "checkAuth"
    /\ authState = [user |-> "alice", isAuthenticated |-> TRUE]
    /\ localStorage.user = JSONStringify("alice")
    /\ localStorage.access_token \in AccessTokens
    /\ localStorage.refresh_token \in RefreshTokens
    /\ requests = EmptyBag

\* C8: a login or register call that settles with a failure (a failed
\* response of any status, a transport error, or the error of a failed
\* refresh) hands the caller that error as it is and leaves
\* {user, isAuthenticated} as it was.
C8_LoginFailure ==
    [][(/\ event'.name \in {"response", "refreshResponse"}
        /\ event'.before.op \in AuthOps
        /\ event'.status # 200
        /\ event'.after = NoReq)
       => /\ authState' = authState
          /\ delivered' = IF event'.name = "refreshResponse"
                          THEN RefreshError(event'.status)
                          ELSE Rejected(event'.before.sends, event'.status)]_vars

C8_Witness ==
    /\ RefreshAnswered /\ event.before.op = "login"
    /\ delivered = RefreshError(401)
    /\ authState = [user |-> "bob", isAuthenticated |-> TRUE]
    /\ localStorage = NoCredentials

\* C9: logout removes the three stored keys, makes no network call (nothing
\* is sent and no request in flight is touched) and sets the session state
\* to {user: null, isAuthenticated: false}, whatever the state before.
C9_Logout ==
    [][event'.name = "logout"
       => /\ localStorage' = NoCredentials
          /\ authState' = [user |-> Null, isAuthenticated |-> FALSE]
          /\ wire' = NoMsg
          /\ requests' = requests
          /\ location' = location]_vars

C9_Witness ==
    /\ event.name = "logout"
    /\ localStorage = NoCredentials
    /\ authState = [user |-> Null, isAuthenticated |-> FALSE]
    /\ \E q \in BagToSet(requests) : q.pc = "refreshing"

\* The statement of C10 as the spec words it: isAuthenticated() is true
\* exactly when an access_token entry is present.
C10_PresenceOnly ==
    isAuthenticated(localStorage) <=> localStorage.access_token # Null

\* C10 (amended): isAuthenticated() is true exactly when the access_token
\* entry is present and not the empty string, whatever the refresh token and
\* the cached user are; checkAuth and the store's creation report that value.
C10_NonEmptyAccess ==
    /\ isAuthenticated(localStorage) <=> localStorage.access_token \notin {Null, ""}
    /\ event.name \in {"checkAuth", "pageLoad"}
       => (authState.isAuthenticated <=> localStorage.access_token \notin {Null, ""})

C10_Witness ==
    /\ localStorage.access_token = ""
    /\ ~isAuthenticated(localStorage)
    /\ event.name = "checkAuth"
    /\ ~authState.isAuthenticated

-----------------------------------------------------------------------------
(* components/FileList/FileList.tsx and Dashboard.tsx *)

\* Calls of the file list in flight at once.
MaxCalls == 2

extType(x) ==
    IF FileType(x.id) \in {"pdf", "doc", "docx", "txt"} THEN "doc" ELSE "image"

visibleFiles(fs, flt) ==
    {x \in fs : CASE flt = "failed" -> x.status = "failed"
                  [] flt = "docs"   -> extType(x) = "doc"
                  [] flt = "images" -> extType(x) = "image"
                  [] OTHER          -> TRUE}

Ids(fs) == {x.id : x \in fs}

hasInFlight_ProcessingOnly(fs) == \E x \in fs : x.status = "processing"

\* The poll timer's test on filesRef.current.
hasInFlight(fs) == \E x \in fs : x.status \in {"processing", "uploaded"}

\* The list is on screen (not the "Loading files..." placeholder).
Rendered == ~(loading /\ files = {})

\* The row of file f is on screen.
RowShown(f) == Rendered /\ f \in Ids(visibleFiles(files, filter))

ConfirmShown_OnEveryRow(f) == RowShown(f)

\* The Delete (confirm) and Cancel buttons of file f are on screen.
ConfirmShown(f) == RowShown(f) /\ pendingDeleteId = f

HasRoom == BagCardinality(calls) < MaxCalls

\* loadFiles(p) up to its await: setLoading(true) and GET /files/?page=p,
\* taking the place of the call c that was awaited before it (NoCall: none).
loadFiles(c, p, f, then) ==
    /\ loading' = TRUE
    /\ calls' = (calls (-) One(c)) (+) One(Call("list", p, f, then))

\* The handler awaiting loadFiles resumes: confirmDelete calls onFileDelete
\* (Dashboard.handleFileDelete) and clears the pending id; submitRename
\* leaves rename mode.
handleFileDelete_KeepsSelection(sel, f) == sel

handleFileDelete(sel, f) == sel \ {f}

AfterLoad(c) ==
    /\ selectedFiles' = IF c.then = "delete"
                        THEN handleFileDelete(selectedFiles, c.f)
                        ELSE selectedFiles
    /\ pendingDeleteId' = IF c.then = "delete" THEN NoFile ELSE pendingDeleteId
    /\ renamingId' = IF c.then = "rename" THEN NoFile ELSE renamingId
    /\ renameValue' = IF c.then = "rename" THEN "" ELSE renameValue

\* The list call c is answered: loadFiles applies the response.
ListLoaded(c, response) ==
    /\ c.kind = "list"
    /\ files' = response.results
    /\ totalPages' = response.total_pages
    /\ page' = response.page
    /\ error' = ""
    /\ loading' = FALSE
    /\ AfterLoad(c)
    /\ calls' = calls (-) One(c)
    /\ fstep' = FileStep("listLoaded", c)
    /\ UNCHANGED <<backend, filter>>

\* The list call c fails: loadFiles records the error.
ListFailed(c, msg) ==
    /\ c.kind = "list"
    /\ error' = OrElse(msg, "Failed to load files")
    /\ loading' = FALSE
    /\ AfterLoad(c)
    /\ calls' = calls (-) One(c)
    /\ fstep' = FileStep("listFailed", c)
    /\ UNCHANGED <<backend, files, page, totalPages, filter>>

\* The interval callback of the polling effect.
PollTick ==
    /\ HasRoom
    /\ IF hasInFlight(files)
       THEN /\ loadFiles(NoCall, page, NoFile, "-")
            /\ fstep' = FileStep("tick", Call("list", page, NoFile, "-"))
       ELSE /\ fstep' = FileStep("tick", NoCall)
            /\ UNCHANGED <<loading, calls>>
    /\ UNCHANGED <<backend, files, page, totalPages, error, filter, renamingId,
                   renameValue, pendingDeleteId, selectedFiles>>

\* The Refresh button, and refresh() of the imperative handle (called by
\* Dashboard.handleUploadComplete).
Refresh ==
    /\ HasRoom
    /\ loadFiles(NoCall, page, NoFile, "-")
    /\ fstep' = FileStep("refresh", Call("list", page, NoFile, "-"))
    /\ UNCHANGED <<backend, files, page, totalPages, error, filter, renamingId,
                   renameValue, pendingDeleteId, selectedFiles>>

\* The Previous (d = -1) and Next (d = 1) buttons.
GoToPage(d) ==
    /\ HasRoom
    /\ Rendered
    /\ totalPages > 1
    /\ d = -1 => page # 1
    /\ d = 1 => page # totalPages
    /\ loadFiles(NoCall, page + d, NoFile, "-")
    /\ fstep' = FileStep("goToPage", Call("list", page + d, NoFile, "-"))
    /\ UNCHANGED <<backend, files, page, totalPages, error, filter, renamingId,
                   renameValue, pendingDeleteId, selectedFiles>>

SetFilter(key) ==
    /\ Rendered
    /\ filter' = key
    /\ fstep' = FileStep("setFilter", NoCall)
    /\ UNCHANGED <<backend, files, page, totalPages, loading, error, renamingId,
                   renameValue, pendingDeleteId, selectedFiles, calls>>

handleSelectAll(sel, visible) ==
    IF Cardinality(sel) = Cardinality(visible) THEN {} ELSE Ids(visible)

SelectAll ==
    /\ Rendered
    /\ selectedFiles' = handleSelectAll(selectedFiles, visibleFiles(files, filter))
    /\ fstep' = FileStep("selectAll", NoCall)
    /\ UNCHANGED <<backend, files, page, totalPages, loading, error, filter,
                   renamingId, renameValue, pendingDeleteId, calls>>

handleFileToggle(sel, f) == IF f \in sel THEN sel \ {f} ELSE sel \cup {f}

FileToggle(f) ==
    /\ RowShown(f)
    /\ selectedFiles' = handleFileToggle(selectedFiles, f)
    /\ fstep' = FileStep("toggle", NoCall)
    /\ UNCHANGED <<backend, files, page, totalPages, loading, error, filter,
                   renamingId, renameValue, pendingDeleteId, calls>>

\* The Rename button of a row.
startRename(f) ==
    /\ RowShown(f)
    /\ renamingId # f
    /\ renamingId' = f
    /\ renameValue' = Filename(f)
    /\ fstep' = FileStep("startRename", NoCall)
    /\ UNCHANGED <<backend, files, page, totalPages, loading, error, filter,
                   pendingDeleteId, selectedFiles, calls>>

\* Typing in the rename field.
EditRename(f, v) ==
    /\ RowShown(f)
    /\ renamingId = f
    /\ renameValue' = v
    /\ fstep' = FileStep("editRename", NoCall)
    /\ UNCHANGED <<backend, files, page, totalPages, loading, error, filter,
                   renamingId, pendingDeleteId, selectedFiles, calls>>

\* Escape, or the Cancel button of the rename field.
CancelRename(f) ==
    /\ RowShown(f)
    /\ renamingId = f
    /\ renamingId' = NoFile
    /\ renameValue' = ""
    /\ fstep' = FileStep("cancelRename", NoCall)
    /\ UNCHANGED <<backend, files, page, totalPages, loading, error, filter,
                   pendingDeleteId, selectedFiles, calls>>

\* Enter, or the Save button: submitRename up to its first await.
submitRename(f) ==
    /\ RowShown(f)
    /\ renamingId = f
    /\ HasRoom
    /\ IF Trim(renameValue) = ""
       THEN /\ fstep' = FileStep("submitRename", NoCall)
            /\ UNCHANGED calls
       ELSE /\ calls' = calls (+) One(Call("rename", page, f, "-"))
            /\ fstep' = FileStep("submitRename", Call("rename", page, f, "-"))
    /\ UNCHANGED <<backend, files, page, totalPages, loading, error, filter,
                   renamingId, renameValue, pendingDeleteId, selectedFiles>>

\* PATCH /files/f/update/ succeeds: submitRename reloads the page it held.
RenameDone(c) ==
    /\ c.kind = "rename"
    /\ loadFiles(c, c.page, NoFile, "rename")
    /\ fstep' = FileStep("renameDone", c)
    /\ UNCHANGED <<backend, files, page, totalPages, error, filter, renamingId,
                   renameValue, pendingDeleteId, selectedFiles>>

RenameFailed(c, msg) ==
    /\ c.kind = "rename"
    /\ error' = OrElse(msg, "Failed to rename file")
    /\ renamingId' = NoFile
    /\ renameValue' = ""
    /\ calls' = calls (-) One(c)
    /\ fstep' = FileStep("renameFailed", c)
    /\ UNCHANGED <<backend, files, page, totalPages, loading, filter,
                   pendingDeleteId, selectedFiles>>

\* The Delete button of a row that is not awaiting confirmation.
requestDelete(f) ==
    /\ RowShown(f)
    /\ pendingDeleteId # f
    /\ pendingDeleteId' = f
    /\ fstep' = FileStep("requestDelete", NoCall)
    /\ UNCHANGED <<backend, files, page, totalPages, loading, error, filter,
                   renamingId, renameValue, selectedFiles, calls>>

\* The Cancel button of a row awaiting confirmation.
CancelDelete(f) ==
    /\ ConfirmShown(f)
    /\ pendingDeleteId' = NoFile
    /\ fstep' = FileStep("cancelDelete", NoCall)
    /\ UNCHANGED <<backend, files, page, totalPages, loading, error, filter,
                   renamingId, renameValue, selectedFiles, calls>>

\* The Delete button of a row awaiting confirmation: confirmDelete up to
\* its first await.
confirmDelete(f) ==
    /\ ConfirmShown(f)
    /\ HasRoom
    /\ calls' = calls (+) One(Call("delete", page, f, "-"))
    /\ fstep' = FileStep("confirmDelete", Call("delete", page, f, "-"))
    /\ UNCHANGED <<backend, files, page, totalPages, loading, error, filter,
                   renamingId, renameValue, pendingDeleteId, selectedFiles>>

\* DELETE /files/f/ succeeds (the backend no longer has f): confirmDelete
\* reloads the page it held.
DeleteDone(c) ==
    /\ c.kind = "delete"
    /\ backend' = backend \ {c.f}
    /\ loadFiles(c, c.page, c.f, "delete")
    /\ fstep' = FileStep("deleteDone", c)
    /\ UNCHANGED <<files, page, totalPages, error, filter, renamingId,
                   renameValue, pendingDeleteId, selectedFiles>>

\* Faulty variant: the catch block also reports the file as deleted to the
\* dashboard, which drops it from the selection.
DeleteFailed_DropsSelection(c, msg) ==
    /\ c.kind = "delete"
    /\ error' = OrElse(msg, "Failed to delete file")
    /\ pendingDeleteId' = NoFile
    /\ selectedFiles' = handleFileDelete(selectedFiles, c.f)
    /\ calls' = calls (-) One(c)
    /\ fstep' = FileStep("deleteFailed", c)
    /\ UNCHANGED <<backend, files, page, totalPages, loading, filter,
                   renamingId, renameValue>>

\* DELETE /files/f/ is rejected: the catch block records the error and the
\* finally block clears the pending id.
DeleteFailed(c, msg) ==
    /\ c.kind = "delete"
    /\ error' = OrElse(msg, "Failed to delete file")
    /\ pendingDeleteId' = NoFile
    /\ calls' = calls (-) One(c)
    /\ fstep' = FileStep("deleteFailed", c)
    /\ UNCHANGED <<backend, files, page, totalPages, loading, filter,
                   renamingId, renameValue, selectedFiles>>

\* A signed-in session with nothing in flight.
SignedIn ==
    /\ localStorage = [access_token |-> "a0", refresh_token |-> "r0",
                       user |-> JSONStringify("bob")]
    /\ authState = StateFromStorage(localStorage)
    /\ location = "/"
    /\ requests = EmptyBag
    /\ event = Event("pageLoad", NoReq, NoReq, 0, NoData)
    /\ wire = NoMsg
    /\ delivered = NoOutcome

\* The dashboard has mounted: the effect of FileList called loadFiles() and
\* started the poll timer.
FileListMounted ==
    /\ backend \in SUBSET FileIds
    /\ files = {}
    /\ page = 1
    /\ totalPages = 1
    /\ loading = TRUE
    /\ error = ""
    /\ filter = "all"
    /\ renamingId = NoFile
    /\ renameValue = ""
    /\ pendingDeleteId = NoFile
    /\ selectedFiles = {}
    /\ calls = One(Call("list", 1, NoFile, "-"))
    /\ fstep = FileStep("mount", Call("list", 1, NoFile, "-"))

FilesInit ==
    /\ SignedIn
    /\ FileListMounted
    /\ latest = Latest(NoCall, NoListResponse)
    /\ FileUploadIdle
    /\ ChatFirstRender

FilesNext ==
    \/ \E c \in BagToSet(calls) :
          \E response \in FileListResponses(backend, c.page) :
             ListLoaded(c, response) /\ UNCHANGED <<authVars, uploadVars, chatVars, latest>>
    \/ \E c \in BagToSet(calls), msg \in ErrorMessages :
          ListFailed(c, msg) /\ UNCHANGED <<authVars, uploadVars, chatVars, latest>>
    \/ PollTick /\ UNCHANGED <<authVars, uploadVars, chatVars, latest>>
    \/ Refresh /\ UNCHANGED <<authVars, uploadVars, chatVars, latest>>
    \/ \E d \in {-1, 1} : GoToPage(d) /\ UNCHANGED <<authVars, uploadVars, chatVars, latest>>
    \/ \E key \in {"all", "docs", "images", "failed"} :
          SetFilter(key) /\ UNCHANGED <<authVars, uploadVars, chatVars, latest>>
    \/ SelectAll /\ UNCHANGED <<authVars, uploadVars, chatVars, latest>>
    \/ \E f \in FileIds : FileToggle(f) /\ UNCHANGED <<authVars, uploadVars, chatVars, latest>>
    \/ \E f \in FileIds : requestDelete(f) /\ UNCHANGED <<authVars, uploadVars, chatVars, latest>>
    \/ \E f \in FileIds : CancelDelete(f) /\ UNCHANGED <<authVars, uploadVars, chatVars, latest>>
    \/ \E f \in FileIds : confirmDelete(f) /\ UNCHANGED <<authVars, uploadVars, chatVars, latest>>
    \/ \E c \in BagToSet(calls) : DeleteDone(c) /\ UNCHANGED <<authVars, uploadVars, chatVars, latest>>
    \/ \E c \in BagToSet(calls), msg \in ErrorMessages :
          DeleteFailed(c, msg) /\ UNCHANGED <<authVars, uploadVars, chatVars, latest>>

SpecFiles == FilesInit /\ [][FilesNext]_vars

\* The list calls alone, followed in the order they are issued.  A response
\* to one of several identical calls in flight is taken as the response to
\* the oldest of them.
IssuedLast == latest' = Latest(fstep'.call, NoListResponse)

AnsweredLast(c, response) ==
    latest' = IF c = latest.call /\ CopiesIn(c, calls) = 1
              THEN Latest(c, response)
              ELSE latest

OverlapInit ==
    /\ SignedIn
    /\ FileListMounted
    /\ latest = Latest(Call("list", 1, NoFile, "-"), NoListResponse)
    /\ FileUploadIdle
    /\ ChatFirstRender

OverlapNext ==
    \/ \E c \in BagToSet(calls) :
          \E response \in FileListResponses(backend, c.page) :
             /\ ListLoaded(c, response)
             /\ AnsweredLast(c, response)
             /\ UNCHANGED <<authVars, uploadVars, chatVars>>
    \/ \E c \in BagToSet(calls), msg \in ErrorMessages :
          /\ ListFailed(c, msg)
          /\ AnsweredLast(c, ListFailure)
          /\ UNCHANGED <<authVars, uploadVars, chatVars>>
    \/ /\ PollTick
       /\ IF fstep'.call = NoCall THEN UNCHANGED latest ELSE IssuedLast
       /\ UNCHANGED <<authVars, uploadVars, chatVars>>
    \/ Refresh /\ IssuedLast /\ UNCHANGED <<authVars, uploadVars, chatVars>>
    \/ \E d \in {-1, 1} :
          GoToPage(d) /\ IssuedLast /\ UNCHANGED <<authVars, uploadVars, chatVars>>

SpecOverlap == OverlapInit /\ [][OverlapNext]_vars

-----------------------------------------------------------------------------
(* components/FileUpload/FileUpload.tsx and Dashboard.tsx *)

\* Pending setTimeout callbacks of the Dashboard at once.
MaxTimers == 2

Validation_SizeOnly(file) ==
    IF file.size > maxSize THEN "File size exceeds 10MB limit" ELSE ""

\* The two checks of handleFile: the message it reports, "" when the file
\* passes both.
Validation(file) ==
    IF file.size > maxSize
    THEN "File size exceeds 10MB limit"
    ELSE IF file.type \notin allowedTypes
         THEN "File type not supported. Allowed: PDF, TXT, DOCX, PNG, JPEG"
         ELSE ""

TransferOk_AnyLoad(status) == TRUE

\* The load listener's test on xhr.status.
TransferOk(status) == status = 204 \/ status = 200

ChoiceEnabled_WhileUploading == TRUE

\* The file input is enabled and the drop zone takes pointer events.
ChoiceEnabled == ~uploading

\* Dashboard.handleUploadComplete, the props.onUploadComplete of FileUpload.
handleUploadComplete(asset) ==
    /\ uploadSuccess' = "File \"" \o Filename(asset.id) \o "\" uploaded successfully."
    /\ uploadError' = ""
    /\ timers' = (timers (+) One("clearSuccess")) (+) One("refresh")

\* Dashboard.handleUploadError, the props.onError of FileUpload.
handleUploadError(msg) ==
    /\ uploadError' = msg
    /\ uploadSuccess' = ""
    /\ timers' = timers (+) One("clearError")

\* handleFile from its catch block on: report, then setUploading(false).
UploadFailed(name, u, status, msg) ==
    /\ handleUploadError(OrElse(msg, "Upload failed"))
    /\ uploading' = FALSE
    /\ uploads' = uploads (-) One(u)
    /\ ustep' = UploadStep(name, u.file, status, NoUploadCall,
                           OrElse(msg, "Upload failed"), NoAsset)
    /\ UNCHANGED <<progress, dragActive>>

\* handleFile moves on to its next await and puts that stage's request on
\* the wire.
NextStage(name, u, status, stage, url) ==
    /\ uploads' = (uploads (-) One(u)) (+) One(Upload(u.file, stage))
    /\ ustep' = UploadStep(name, u.file, status, UploadCall(url, u.file),
                           Null, NoAsset)
    /\ UNCHANGED <<uploading, progress, dragActive, uploadError,
                   uploadSuccess, timers>>

\* handleFileInput (how = "input") or handleDrop (how = "drop") with a
\* file: handleFile up to its first await.
ChooseFile(file, how) ==
    /\ ChoiceEnabled
    /\ BagCardinality(timers) < MaxTimers
    /\ dragActive' = IF how = "drop" THEN FALSE ELSE dragActive
    /\ IF Validation(file) # ""
       THEN /\ handleUploadError(Validation(file))
            /\ ustep' = UploadStep("chooseFile", file, 0, NoUploadCall,
                                   Validation(file), NoAsset)
            /\ UNCHANGED <<uploading, progress, uploads>>
       ELSE /\ uploading' = TRUE
            /\ progress' = 0
            /\ uploads' = uploads (+) One(Upload(file, "presign"))
            /\ ustep' = UploadStep("chooseFile", file, 0,
                                   UploadCall("/files/presign/", file),
                                   Null, NoAsset)
            /\ UNCHANGED <<uploadError, uploadSuccess, timers>>

\* handleDrag, and handleDrop of a drag that carries no file.
Drag(type) ==
    /\ ChoiceEnabled
    /\ dragActive' = CASE type \in {"dragenter", "dragover"} -> TRUE
                       [] type \in {"dragleave", "drop"}     -> FALSE
    /\ ustep' = UploadStep(type, NoFileChosen, 0, NoUploadCall, Null, NoAsset)
    /\ UNCHANGED <<uploading, progress, uploads, uploadError, uploadSuccess,
                   timers>>

\* presignUpload resolves: the form is sent to the presigned URL.
PresignDone(u) ==
    /\ u.stage = "presign"
    /\ NextStage("presignDone", u, 0, "transfer", "presignData.url")

PresignFailed(u, msg) ==
    /\ u.stage = "presign"
    /\ BagCardinality(timers) < MaxTimers
    /\ UploadFailed("presignFailed", u, 0, msg)

\* A progress event of the transfer.
TransferProgress(u, percent) ==
    /\ u.stage = "transfer"
    /\ progress' = percent
    /\ ustep' = UploadStep("progress", u.file, 0, NoUploadCall, Null, NoAsset)
    /\ UNCHANGED <<uploading, dragActive, uploads, uploadError,
                   uploadSuccess, timers>>

\* The load event of the transfer, with xhr.status = status.
TransferLoad(u, status) ==
    /\ u.stage = "transfer"
    /\ IF TransferOk(status)
       THEN NextStage("transferLoad", u, status, "finalize", "/files/finalize/")
       ELSE /\ BagCardinality(timers) < MaxTimers
            /\ UploadFailed("transferLoad", u, status, "Upload failed")

\* The error event of the transfer.
TransferError(u) ==
    /\ u.stage = "transfer"
    /\ BagCardinality(timers) < MaxTimers
    /\ UploadFailed("transferError", u, 0, "Upload failed")

\* finalizeUpload resolves with the FileAsset.
FinalizeDone(u) ==
    /\ u.stage = "finalize"
    /\ BagCardinality(timers) + 2 <= MaxTimers
    /\ handleUploadComplete(FinalizedAsset(u.file))
    /\ progress' = 0
    /\ uploading' = FALSE
    /\ uploads' = uploads (-) One(u)
    /\ ustep' = UploadStep("finalizeDone", u.file, 0, NoUploadCall, Null,
                           FinalizedAsset(u.file))
    /\ UNCHANGED dragActive

FinalizeFailed(u, msg) ==
    /\ u.stage = "finalize"
    /\ BagCardinality(timers) < MaxTimers
    /\ UploadFailed("finalizeFailed", u, 0, msg)

\* A setTimeout callback of the Dashboard runs: the success message is
\* cleared after 3 s, the error message after 5 s; refresh() of the file list
\* after 500 ms is Refresh above.
TimerFires(t) ==
    /\ BagIn(t, timers)
    /\ timers' = timers (-) One(t)
    /\ uploadSuccess' = IF t = "clearSuccess" THEN "" ELSE uploadSuccess
    /\ uploadError' = IF t = "clearError" THEN "" ELSE uploadError
    /\ ustep' = UploadStep(t, NoFileChosen, 0, NoUploadCall, Null, NoAsset)
    /\ UNCHANGED <<uploading, progress, dragActive, uploads>>

UploadInit ==
    /\ SignedIn
    /\ FileListUnmounted
    /\ FileUploadIdle
    /\ ChatFirstRender

UploadNext ==
    \/ \E file \in ChosenFiles, how \in {"input", "drop"} :
          ChooseFile(file, how) /\ UNCHANGED <<authVars, fileVars, chatVars, latest>>
    \/ \E type \in {"dragenter", "dragover", "dragleave", "drop"} :
          Drag(type) /\ UNCHANGED <<authVars, fileVars, chatVars, latest>>
    \/ \E u \in BagToSet(uploads) :
          PresignDone(u) /\ UNCHANGED <<authVars, fileVars, chatVars, latest>>
    \/ \E u \in BagToSet(uploads), msg \in ErrorMessages :
          PresignFailed(u, msg) /\ UNCHANGED <<authVars, fileVars, chatVars, latest>>
    \/ \E u \in BagToSet(uploads), percent \in {50, 100} :
          TransferProgress(u, percent) /\ UNCHANGED <<authVars, fileVars, chatVars, latest>>
    \/ \E u \in BagToSet(uploads), status \in XhrStatuses :
          TransferLoad(u, status) /\ UNCHANGED <<authVars, fileVars, chatVars, latest>>
    \/ \E u \in BagToSet(uploads) :
          TransferError(u) /\ UNCHANGED <<authVars, fileVars, chatVars, latest>>
    \/ \E u \in BagToSet(uploads) :
          FinalizeDone(u) /\ UNCHANGED <<authVars, fileVars, chatVars, latest>>
    \/ \E u \in BagToSet(uploads), msg \in ErrorMessages :
          FinalizeFailed(u, msg) /\ UNCHANGED <<authVars, fileVars, chatVars, latest>>
    \/ \E t \in {"clearSuccess", "clearError", "refresh"} :
          TimerFires(t) /\ UNCHANGED <<authVars, fileVars, chatVars, latest>>

SpecUpload == UploadInit /\ [][UploadNext]_vars

-----------------------------------------------------------------------------
(* Properties of the file list and the selection *)

\* The step just taken resumed confirmDelete after the reload that follows a
\* successful DELETE: the file it deleted.
DeleteSettled(name) == fstep.name = name /\ fstep.call.then = "delete"

\* C11: in every reachable state of the dashboard the selected file ids are
\* among the ids of the last-fetched files.
C11_SelectionListed == selectedFiles \subseteq Ids(files)

\* The statement of C12 as the spec words it: once the confirmed delete of
\* f has gone through and its handler has finished, f is in neither the
\* displayed list nor the selection.
C12_DeletedEverywhere ==
    (DeleteSettled("listLoaded") \/ DeleteSettled("listFailed"))
    => /\ fstep.call.f \notin Ids(files)
       /\ fstep.call.f \notin selectedFiles

\* C12 (amended): once the DELETE of f has succeeded and the reload of the
\* list that follows it has succeeded too, f is in neither the displayed
\* list nor the selection, whether or not it was selected; when that reload
\* fails, f has left the selection and the displayed list stays as it was,
\* f included if it was displayed, with the error recorded.
C12_DeletedAfterReload ==
    /\ [](DeleteSettled("listLoaded")
          => /\ fstep.call.f \notin Ids(files)
             /\ fstep.call.f \notin selectedFiles
             /\ fstep.call.f \notin backend)
    /\ [][(fstep'.name = "listFailed" /\ fstep'.call.then = "delete")
          => /\ files' = files
             /\ error' # ""
             /\ selectedFiles' = selectedFiles \ {fstep'.call.f}]_vars

C12_Witness ==
    /\ DeleteSettled("listLoaded")
    /\ fstep.call.f = 1
    /\ files = {FileAsset(2, "ready")}
    /\ selectedFiles = {2}
    /\ pendingDeleteId = NoFile

\* C13: a DELETE call for f is issued only by the confirm button of f, which
\* is on screen only while f is the pending-delete id; f becomes the
\* pending-delete id only by a delete request for f, which issues no call,
\* and a cancel clears it.
C13_DeleteNeedsConfirm ==
    [][/\ \A c \in BagToSet(calls') :
            (c.kind = "delete" /\ CopiesIn(c, calls') > CopiesIn(c, calls))
            => /\ fstep'.name = "confirmDelete"
               /\ pendingDeleteId = c.f
               /\ pendingDeleteId' = c.f
               /\ calls' = calls (+) One(c)
       /\ (pendingDeleteId' # pendingDeleteId /\ pendingDeleteId' # NoFile)
            => /\ fstep'.name = "requestDelete"
               /\ calls' = calls
       /\ fstep'.name = "requestDelete" => calls' = calls
       /\ fstep'.name = "cancelDelete" => pendingDeleteId' = NoFile]_vars

C13_Witness ==
    /\ fstep.name = "confirmDelete"
    /\ fstep.call = Call("delete", 1, 1, "-")
    /\ BagIn(fstep.call, calls)
    /\ pendingDeleteId = 1

\* C14: on a tick of the poll timer, a list request for the current page is
\* issued if a last-fetched file has status processing or uploaded, and no
\* request at all is issued otherwise.
C14_PollTick ==
    [][fstep'.name = "tick"
       => IF \E x \in files : x.status \in {"processing", "uploaded"}
          THEN /\ calls' = calls (+) One(Call("list", page, NoFile, "-"))
               /\ fstep'.call = Call("list", page, NoFile, "-")
          ELSE /\ calls' = calls
               /\ fstep'.call = NoCall]_vars

C14_Witness ==
    /\ fstep.name = "tick"
    /\ fstep.call = NoCall
    /\ files = {FileAsset(1, "failed")}
    /\ calls = EmptyBag

-----------------------------------------------------------------------------
(* Properties of the upload *)

\* C15: a chosen file larger than 10*1024*1024 bytes, or of a MIME type
\* outside the allow-list, causes no network call, leaves the uploading flag
\* unset, is not reported through onUploadComplete, and is reported through
\* the error callback once: with the size message when it is too large,
\* with the type message otherwise.
C15_ValidationRejects ==
    [][(/\ ustep'.name = "chooseFile"
        /\ \/ ustep'.file.size > 10 * 1024 * 1024
           \/ ustep'.file.type \notin
                {"application/pdf", "text/plain",
                 "application/vnd.openxmlformats-officedocument.wordprocessingml.document",
                 "image/png", "image/jpeg"})
       => /\ ustep'.call = NoUploadCall
          /\ uploads' = uploads
          /\ uploads' = EmptyBag
          /\ ~uploading /\ ~uploading'
          /\ ustep'.onUploadComplete = NoAsset
          /\ ustep'.onError =
               IF ustep'.file.size > 10 * 1024 * 1024
               THEN "File size exceeds 10MB limit"
               ELSE "File type not supported. Allowed: PDF, TXT, DOCX, PNG, JPEG"
          /\ uploadError' = ustep'.onError]_vars

C15_Witness ==
    /\ ustep.name = "chooseFile"
    /\ ustep.file = File("tool.exe", "application/x-msdownload", 1024)
    /\ ustep.onError = "File type not supported. Allowed: PDF, TXT, DOCX, PNG, JPEG"
    /\ ustep.call = NoUploadCall
    /\ ~uploading

\* A stage of the upload just failed.
StageFailed ==
    \/ ustep.name \in {"presignFailed", "transferError", "finalizeFailed"}
    \/ ustep.name = "transferLoad" /\ ustep.status \notin {200, 204}

\* C16: the transfer is sent only when presign has succeeded, finalize only
\* when the transfer has loaded with status 200 or 204, and onUploadComplete
\* is invoked only when finalize has succeeded, with the FileAsset it
\* returned; when a stage fails no further request is sent, the upload is
\* over without onUploadComplete, the error callback is invoked once with a
\* message ("Upload failed" for the transfer) and uploading is false again.
C16_StagesInOrder ==
    /\ [][/\ ustep'.call.url = "presignData.url"
             => /\ ustep'.name = "presignDone"
                /\ BagIn(Upload(ustep'.file, "presign"), uploads)
          /\ ustep'.call.url = "/files/finalize/"
             => /\ ustep'.name = "transferLoad"
                /\ ustep'.status \in {200, 204}
                /\ BagIn(Upload(ustep'.file, "transfer"), uploads)
          /\ ustep'.onUploadComplete # NoAsset
             => /\ ustep'.name = "finalizeDone"
                /\ BagIn(Upload(ustep'.file, "finalize"), uploads)
                /\ ustep'.onUploadComplete.id \in FileIds
                /\ ustep'.onError = Null
                /\ ~uploading'
                /\ progress' = 0]_vars
    /\ [](StageFailed
          => /\ ustep.call = NoUploadCall
             /\ uploads = EmptyBag
             /\ ustep.onUploadComplete = NoAsset
             /\ ustep.onError \notin {Null, ""}
             /\ uploadError = ustep.onError
             /\ ustep.name \in {"transferLoad", "transferError"}
                => ustep.onError = "Upload failed"
             /\ ~uploading)

C16_Witness ==
    /\ ustep.name = "transferLoad"
    /\ ustep.status = 403
    /\ ustep.onError = "Upload failed"
    /\ uploads = EmptyBag
    /\ ~uploading

\* C17: at most one upload is in flight; uploading is true exactly while
\* one is; a presign request goes out only when none is in flight, and
\* while one is, the file input and the drop zone take no file.
C17_OneUploadAtATime ==
    /\ [](/\ BagCardinality(uploads) <= 1
          /\ uploading <=> uploads # EmptyBag)
    /\ [][/\ ustep'.call.url = "/files/presign/" => uploads = EmptyBag
          /\ uploads # EmptyBag
             => ustep'.name \notin {"chooseFile", "dragenter", "dragover",
                                    "dragleave", "drop"}]_vars

C17_Witness ==
    /\ uploads = One(Upload(File("report.pdf", "application/pdf", 1024), "transfer"))
    /\ uploading
    /\ progress = 50


-----------------------------------------------------------------------------
(* components/Chat/ChatInterface.tsx *)

\* The clock is followed for this many milliseconds.
MaxClock == 3

ErrorText == "Sorry, I encountered an error. Please try again."

Min(a, b) == IF a < b THEN a ELSE b
Max(a, b) == IF a > b THEN a ELSE b

\* const step = Math.max(10, Math.floor(fullText.length / 30))
step(fullText) == Max(10, TextLength(fullText) \div 30)

\* handleSend goes on past `if (!input.trim() || loading) return`.
canSend_NoTrim(in, ld) == ~(in = "" \/ ld)
canSend(in, ld) == ~(TrimInput(in) = "" \/ ld)

\* prev.filter((m) => m.id !== id)
WithoutId(msgs, id) == SelectSeq(msgs, LAMBDA m : m.id # id)

\* prev.map((m) => m.id === id ? {...m, content} : m)
WithContent(msgs, id, content) ==
    [i \in DOMAIN msgs |->
        IF msgs[i].id = id THEN [msgs[i] EXCEPT !.content = content]
        ELSE msgs[i]]

\* The messages once the temporary message gave way to the stored one and the
\* reply's placeholder.
Replaced_KeepsTemp(msgs, temp, response) ==
    msgs \o <<response.message, [response.response EXCEPT !.content = ""]>>
Replaced(msgs, temp, response) ==
    WithoutId(msgs, temp.id)
        \o <<response.message, [response.response EXCEPT !.content = ""]>>

\* The messages once the temporary message gave way to the error message.
Failed_KeepsTemp(msgs, temp, at) ==
    msgs \o <<Message(at, "assistant", ErrorText, {})>>
Failed(msgs, temp, at) ==
    WithoutId(msgs, temp.id) \o <<Message(at, "assistant", ErrorText, {})>>

\* response.conversation_id !== currentConversationId, the latter as the
\* handler's closure holds it.
isNewConversation_Always(returned, tracked) == TRUE
isNewConversation(returned, tracked) == returned # tracked

\* onChange of the text input, which is disabled while loading.  A keystroke
\* takes the user more than a millisecond.
Type(v) ==
    /\ chatMounted
    /\ ~chatLoading
    /\ now < MaxClock
    /\ input' = v
    /\ now' = now + 1
    /\ cstep' = ChatStep("type", NoChatCall)
    /\ cresponse' = NothingReceived
    /\ UNCHANGED <<messages, chatLoading, currentConversationId, conversationId,
                   streaming, sends, histories, chatMounted, serverSeq,
                   beforeSend, replies>>

\* Time passes.
ClockTick ==
    /\ now < MaxClock
    /\ now' = now + 1
    /\ cstep' = ChatStep("clock", NoChatCall)
    /\ cresponse' = NothingReceived
    /\ UNCHANGED <<messages, input, chatLoading, currentConversationId,
                   conversationId, streaming, sends, histories, chatMounted,
                   serverSeq, beforeSend, replies>>

\* handleSend up to await apiClient.sendMessage.
handleSend ==
    /\ chatMounted
    /\ IF canSend(input, chatLoading)
       THEN LET userMessage == TrimInput(input)
                tempUserMessage ==
                    Message(Epoch + now, "user", userMessage, selectedFiles)
            IN  /\ input' = ""
                /\ chatLoading' = TRUE
                /\ messages' = Append(messages, tempUserMessage)
                /\ beforeSend' = messages
                /\ sends' = sends (+) One(Send(tempUserMessage,
                                               currentConversationId,
                                               selectedFiles))
                /\ cstep' = ChatStep("handleSend",
                                     ChatCall("/chat/", userMessage,
                                              currentConversationId,
                                              selectedFiles))
       ELSE /\ cstep' = ChatStep("handleSend", NoChatCall)
            /\ UNCHANGED <<input, chatLoading, messages, sends, beforeSend>>
    /\ cresponse' = NothingReceived
    /\ UNCHANGED <<currentConversationId, conversationId, streaming, histories,
                   chatMounted, now, serverSeq, replies>>

\* sendMessage resolves: the rest of handleSend's try block and its finally.
\* Dashboard's onConversationChange is setConversationId; the effect on
\* conversationId then finds it equal to currentConversationId.
SendDone(s, conv, fullText) ==
    LET response == ChatResponse(serverSeq, conv, s.temp.content, s.fileIds,
                                 fullText)
        replaced == Replaced(messages, s.temp, response)
    IN  /\ BagIn(s, sends)
        /\ sends' = sends (-) One(s)
        /\ serverSeq' = serverSeq + 1
        /\ IF isNewConversation(response.conversation_id, s.conv)
           THEN /\ currentConversationId' = response.conversation_id
                /\ conversationId' = response.conversation_id
           ELSE UNCHANGED <<currentConversationId, conversationId>>
        /\ IF TextLength(fullText) = 0
           THEN /\ messages' = WithContent(replaced, response.response.id,
                                           fullText)
                /\ UNCHANGED streaming
           ELSE /\ messages' = replaced
                /\ streaming' = Streaming(response.response.id, 0, fullText)
        /\ chatLoading' = FALSE
        /\ cstep' = ChatStep("sendDone",
                             ChatCall("/chat/", s.temp.content, s.conv,
                                      s.fileIds))
        /\ replies' = (response.response.id :> fullText) @@ replies
        /\ cresponse' = Received(response.conversation_id, <<>>,
                                 IF isNewConversation(response.conversation_id,
                                                      s.conv)
                                 THEN <<response.conversation_id>>
                                 ELSE <<>>)
        /\ UNCHANGED <<input, histories, chatMounted, now, beforeSend>>

\* sendMessage rejects: handleSend's catch block and its finally.
SendFailed(s) ==
    /\ BagIn(s, sends)
    /\ sends' = sends (-) One(s)
    /\ messages' = Failed(messages, s.temp, Epoch + now)
    /\ chatLoading' = FALSE
    /\ cstep' = ChatStep("sendFailed",
                         ChatCall("/chat/", s.temp.content, s.conv, s.fileIds))
    /\ cresponse' = NothingReceived
    /\ UNCHANGED <<input, currentConversationId, conversationId, streaming,
                   histories, chatMounted, now, serverSeq, beforeSend, replies>>

\* One tick of the reveal interval.
StreamTick ==
    /\ streaming # NoStreaming
    /\ LET index == Min(TextLength(streaming.text),
                        streaming.index + step(streaming.text))
       IN  /\ messages' = WithContent(messages, streaming.id,
                                      Slice(streaming.text, index))
           /\ streaming' = IF index >= TextLength(streaming.text)
                           THEN NoStreaming
                           ELSE [streaming EXCEPT !.index = index]
    /\ cstep' = ChatStep("streamTick", NoChatCall)
    /\ cresponse' = NothingReceived
    /\ UNCHANGED <<input, chatLoading, currentConversationId, conversationId,
                   sends, histories, chatMounted, now, serverSeq, beforeSend, replies>>

\* The chat view leaves the screen; ChatInterface registers no cleanup.
Unmount ==
    /\ chatMounted
    /\ chatMounted' = FALSE
    /\ cstep' = ChatStep("unmount", NoChatCall)
    /\ cresponse' = NothingReceived
    /\ UNCHANGED <<messages, input, chatLoading, currentConversationId,
                   conversationId, streaming, sends, histories, now, serverSeq,
                   beforeSend, replies>>

\* Dashboard with some files selected and the chat view first rendered.
ChatInit ==
    /\ SignedIn
    /\ FileUploadIdle
    /\ \E sel \in SUBSET FileIds :
        /\ backend = {}
        /\ files = {}
        /\ page = 1
        /\ totalPages = 1
        /\ loading = TRUE
        /\ error = ""
        /\ filter = "all"
        /\ renamingId = NoFile
        /\ renameValue = ""
        /\ pendingDeleteId = NoFile
        /\ selectedFiles = sel
        /\ calls = EmptyBag
        /\ fstep = FileStep("-", NoCall)
        /\ latest = Latest(NoCall, NoListResponse)
    /\ ChatFirstRender

ChatNext ==
    \/ \E v \in InputTexts : Type(v) /\ UNCHANGED <<authVars, fileVars, uploadVars, latest>>
    \/ ClockTick /\ UNCHANGED <<authVars, fileVars, uploadVars, latest>>
    \/ handleSend /\ UNCHANGED <<authVars, fileVars, uploadVars, latest>>
    \/ \E s \in BagToSet(sends), conv \in ConversationIds, fullText \in FullTexts :
         SendDone(s, conv, fullText) /\ UNCHANGED <<authVars, fileVars, uploadVars, latest>>
    \/ \E s \in BagToSet(sends) :
         SendFailed(s) /\ UNCHANGED <<authVars, fileVars, uploadVars, latest>>
    \/ StreamTick /\ UNCHANGED <<authVars, fileVars, uploadVars, latest>>
    \/ Unmount /\ UNCHANGED <<authVars, fileVars, uploadVars, latest>>

SpecChat == ChatInit /\ [][ChatNext]_vars

\* Conversation.messages as GET /chat/history/c/ may return them: none, or
\* an exchange stored under the conversation's own message ids.
Histories(c) ==
    {<<>>,
     <<Message(10 * c + 1, "user", "hi", {}),
       Message(10 * c + 2, "assistant", "Yes.", {})>>}

\* Conversation histories being loaded at a time.
MaxLoads == 2

\* setMessages(conversation.messages)
Loaded_Appends(msgs, history) == msgs \o history
Loaded(msgs, history) == history

\* The parent renders the chat view with another conversationId: the effect
\* on conversationId runs, up to await apiClient.getConversationHistory.
SetConversation(c) ==
    /\ chatMounted
    /\ c # conversationId
    /\ conversationId' = c
    /\ IF c # NoConversation /\ c # currentConversationId
       THEN /\ BagCardinality(histories) < MaxLoads
            /\ histories' = histories (+) One(c)
            /\ currentConversationId' = c
            /\ cstep' = ChatStep("conversation",
                                 ChatCall("/chat/history/", "", c, {}))
       ELSE /\ cstep' = ChatStep("conversation", NoChatCall)
            /\ UNCHANGED <<histories, currentConversationId>>
    /\ cresponse' = NothingReceived
    /\ UNCHANGED <<messages, input, chatLoading, streaming, sends, chatMounted,
                   now, serverSeq, beforeSend, replies>>

\* getConversationHistory resolves: the rest of loadConversationHistory.
HistoryLoaded(c, history) ==
    /\ BagIn(c, histories)
    /\ histories' = histories (-) One(c)
    /\ messages' = Loaded(messages, history)
    /\ currentConversationId' = c
    /\ cresponse' = Received(c, history, <<>>)
    /\ cstep' = ChatStep("historyLoaded", ChatCall("/chat/history/", "", c, {}))
    /\ UNCHANGED <<input, chatLoading, conversationId, streaming, sends,
                   chatMounted, now, serverSeq, beforeSend, replies>>

\* getConversationHistory rejects: the catch block logs the error.
HistoryFailed(c) ==
    /\ BagIn(c, histories)
    /\ histories' = histories (-) One(c)
    /\ cresponse' = NothingReceived
    /\ cstep' = ChatStep("historyFailed", ChatCall("/chat/history/", "", c, {}))
    /\ UNCHANGED <<messages, input, chatLoading, currentConversationId,
                   conversationId, streaming, sends, chatMounted, now,
                   serverSeq, beforeSend, replies>>

\* ChatInterface under a parent that chooses the conversation to show.
HistoryNext ==
    \/ \E c \in ConversationIds \cup {NoConversation} :
         SetConversation(c) /\ UNCHANGED <<authVars, fileVars, uploadVars, latest>>
    \/ \E c \in BagToSet(histories) : \E history \in Histories(c) :
         HistoryLoaded(c, history) /\ UNCHANGED <<authVars, fileVars, uploadVars, latest>>
    \/ \E c \in BagToSet(histories) :
         HistoryFailed(c) /\ UNCHANGED <<authVars, fileVars, uploadVars, latest>>
    \/ \E v \in InputTexts : Type(v) /\ UNCHANGED <<authVars, fileVars, uploadVars, latest>>
    \/ handleSend /\ UNCHANGED <<authVars, fileVars, uploadVars, latest>>
    \/ \E s \in BagToSet(sends) :
         SendFailed(s) /\ UNCHANGED <<authVars, fileVars, uploadVars, latest>>

SpecHistory == ChatInit /\ [][HistoryNext]_vars

\* The browser runs the callback of a live interval every 30 ms.
SpecChatFair ==
    SpecChat
        /\ WF_vars(StreamTick /\ UNCHANGED <<authVars, fileVars, uploadVars, latest>>)


-----------------------------------------------------------------------------
(* Chat claims *)

\* The send that is awaiting its response.
Pending == CHOOSE s \in BagToSet(sends) : TRUE

\* The ids and roles of a sequence of messages, in order.
Outline(msgs) == [i \in DOMAIN msgs |-> <<msgs[i].id, msgs[i].role>>]

\* C18: a chat send invoked with empty or whitespace-only input, or while a
\* previous send is awaiting its response, issues no request and leaves the
\* message sequence as it was; and at most one chat request is in flight at
\* any time.
C18_SendGuard ==
    /\ [][(cstep'.name = "handleSend"
            /\ (input \in {"", " "} \/ BagCardinality(sends) > 0))
          => /\ cstep'.call = NoChatCall
             /\ sends' = sends
             /\ messages' = messages
             /\ Len(messages') = Len(messages)]_vars
    /\ [](BagCardinality(sends) <= 1)

\* A send was invoked while another was awaiting its response, and went
\* nowhere.
C18_Witness ==
    /\ cstep = ChatStep("handleSend", NoChatCall)
    /\ BagCardinality(sends) = 1
    /\ Len(messages) > 0

\* C19: after a successful chat send the temporary id appears nowhere in the
\* message sequence, and against the sequence just before the send exactly
\* the stored user message and then one assistant message have been
\* appended: the length grew by two.
C19_SendSucceeds ==
    [][cstep'.name = "sendDone"
       => LET n == Len(beforeSend) IN
          /\ \A i \in DOMAIN messages' : messages'[i].id # Pending.temp.id
          /\ Len(messages') = n + 2
          /\ SubSeq(Outline(messages'), 1, n) = Outline(beforeSend)
          /\ messages'[n + 1].role = "user"
          /\ messages'[n + 1].content = Pending.temp.content
          /\ messages'[n + 1].id < Epoch
          /\ messages'[n + 2].role = "assistant"
          /\ messages'[n + 2].id < Epoch]_vars

\* A send succeeded in a conversation that already had messages.
C19_Witness ==
    /\ cstep.name = "sendDone"
    /\ Len(beforeSend) > 0
    /\ Len(messages) = Len(beforeSend) + 2

\* C20: when a chat send fails, the temporary user message is gone from the
\* message sequence, one assistant message with the fixed apology has been
\* appended, no other message was added or removed, and nothing is pending
\* any more, so that the next send with some text goes out.
C20_SendFails ==
    [][/\ cstep'.name = "sendFailed"
          => LET n == Len(beforeSend) IN
             /\ \A i \in DOMAIN messages' : messages'[i] # Pending.temp
             /\ Len(messages') = n + 1
             /\ SubSeq(Outline(messages'), 1, n) = Outline(beforeSend)
             /\ messages'[n + 1].role = "assistant"
             /\ messages'[n + 1].content
                    = "Sorry, I encountered an error. Please try again."
             /\ chatLoading' = FALSE
             /\ sends' = EmptyBag
       /\ (cstep'.name = "handleSend" /\ input = "hi" /\ sends = EmptyBag)
          => /\ cstep'.call.message = "hi"
             /\ BagCardinality(sends') = 1]_vars

\* A send failed in a conversation that already had messages.
C20_Witness ==
    /\ cstep.name = "sendFailed"
    /\ Len(beforeSend) > 0
    /\ Len(messages) = Len(beforeSend) + 1
    /\ ~chatLoading


\* C21: when the chat view is unmounted while a reveal is in progress, the
\* reveal timer is cleared by the unmount, and once the view is gone no
\* reveal tick fires and the messages are not updated.
C21_TimerClearedAtTeardown ==
    [][/\ (cstep'.name = "unmount" /\ streaming # NoStreaming)
          => streaming' = NoStreaming
       /\ ~chatMounted
          => (cstep'.name # "streamTick" /\ messages' = messages)]_vars


\* The reply with this id is on screen with its full text.
Revealed(id) ==
    /\ id \in DOMAIN replies
    /\ \E i \in DOMAIN messages :
          messages[i].id = id /\ messages[i].content = replies[id]

\* C22: while the view stays mounted and the reveal interval keeps ticking,
\* every reply received from a successful send is eventually on screen with
\* its full text and its reveal timer cancelled, also when a later send
\* completes while an earlier reply is still being revealed.
C22_EveryReplyRevealed ==
    []chatMounted
        => \A id \in 1..(2 * MaxClock) :
              [](id \in DOMAIN replies
                    => <>(Revealed(id) /\ streaming.id # id))


\* C23: when the load of conversation c succeeds, the messages become
\* exactly the messages the history endpoint returned for c, with nothing
\* kept of the messages before, and c becomes the current conversation id.
C23_HistoryReplaces ==
    [][cstep'.name = "historyLoaded"
       => /\ messages' = cresponse'.messages
          /\ currentConversationId' = cstep'.call.conversation_id
          /\ cresponse'.conversation_id = cstep'.call.conversation_id]_vars

\* A history was loaded while a send was awaiting its response, and the
\* temporary message of that send is gone.
C23_Witness ==
    /\ cstep.name = "historyLoaded"
    /\ BagCardinality(sends) = 1
    /\ \A i \in DOMAIN messages : messages[i].id < Epoch
    /\ Len(messages) = 2
    /\ messages[1].id > 10
    /\ currentConversationId = cstep.call.conversation_id



\* C25: after a successful send, if the conversation id the server returned
\* differs from the id tracked when the send started, the returned id
\* becomes the current one and onConversationChange is called exactly once,
\* with it; if the two are equal, the tracked id stays and
\* onConversationChange is not called.
C25_ConversationAdopted ==
    [][cstep'.name = "sendDone"
       => LET returned == cresponse'.conversation_id
              tracked == cstep'.call.conversation_id
          IN  IF returned # tracked
              THEN /\ currentConversationId' = returned
                   /\ cresponse'.onConversationChange = <<returned>>
                   /\ conversationId' = returned
              ELSE /\ currentConversationId' = currentConversationId
                   /\ currentConversationId' = tracked
                   /\ cresponse'.onConversationChange = <<>>
                   /\ conversationId' = conversationId]_vars

\* A send in the conversation an earlier send had adopted came back with the
\* same id and notified no one.
C25_Witness ==
    /\ cstep.name = "sendDone"
    /\ cresponse.conversation_id = cstep.call.conversation_id
    /\ cresponse.onConversationChange = <<>>
    /\ currentConversationId \in ConversationIds
    /\ conversationId = currentConversationId


-----------------------------------------------------------------------------
(* File-list claims, continued *)

\* C26: after a successful rename or a successful confirmed delete exactly
\* one list request is issued, for the page on view, and the displayed files
\* change only when a list response is applied, never by a local mutation.
C26_ReloadsCurrentPage ==
    [][/\ fstep'.name \in {"deleteDone", "renameDone"}
          => LET issued == calls' (-) calls IN
             /\ BagCardinality(issued) = 1
             /\ \A c \in BagToSet(issued) : c.kind = "list" /\ c.page = page
             /\ files' = files
       /\ files' # files => fstep'.name = "listLoaded"]_vars

\* C28: list requests may overlap; once every list request in flight has
\* settled, the page number and the files on display are those returned for
\* the request issued last, in whatever order the responses arrived.
C28_LastIssuedWins ==
    (/\ \A c \in BagToSet(calls) : c.kind # "list"
     /\ latest.response.page > 0)
        => /\ page = latest.response.page
           /\ files = latest.response.results

-----------------------------------------------------------------------------
(* Session claims, continued *)

\* The credential store as the application writes it: the three keys
\* together, or none of them.
StoreWhole ==
    \/ /\ Truthy(localStorage.access_token)
       /\ Truthy(localStorage.refresh_token)
       /\ Truthy(localStorage.user)
    \/ localStorage = [access_token |-> Null, refresh_token |-> Null,
                       user |-> Null]

SignsIn ==
    /\ event'.name = "response"
    /\ event'.status = 200
    /\ event'.before.op \in {"login", "register"}

\* C27: after logout() has run the credential store holds no access token
\* until the next successful login or register, whatever requests or
\* refreshes were in flight; in particular the task that follows logout(),
\* unless it is a successful login or register, leaves the store without one.
C27_LoggedOutStaysOut ==
    [][(event.name = "logout" /\ ~SignsIn)
       => /\ ~Truthy(localStorage.access_token)
          /\ ~Truthy(localStorage'.access_token)
          /\ ~isAuthenticated(localStorage')]_vars





\* The step is the arrival of a failed response to a login or register call.
AuthCallFails ==
    /\ event'.name \in {"response", "refreshResponse"}
    /\ event'.before.op \in {"login", "register"}
    /\ event'.status # 200

\* C29 as claimed: a login or register call that fails, with any status and
\* over any content of the credential store, leaves the three keys as they
\* were and causes no redirect.
C29_FailedLoginTouchesNothing ==
    [][(AuthCallFails /\ delivered'.kind = "error")
       => /\ localStorage' = localStorage
          /\ location' = location]_vars

\* C29: a login or register call whose response is a failure other than a
\* 401, or a 401 while no refresh token is stored, is rejected with that
\* status, leaves the three keys as they were and causes no redirect.  A 401
\* while a refresh token is stored takes the refresh path: a successful
\* refresh replaces the access token, a failed one removes the three keys and
\* redirects to /login.
C29_FailedLoginWithoutRefresh ==
    /\ [][(/\ AuthCallFails
           /\ event'.name = "response"
           /\ event'.before.sends = 1
           /\ (event'.status # 401 \/ localStorage.refresh_token \in {Null, ""}))
          => /\ localStorage' = localStorage
             /\ location' = location
             /\ event'.after = NoReq
             /\ delivered'.kind = "error"
             /\ delivered'.src = "request"
             /\ delivered'.status = event'.status]_vars
    /\ [][(AuthCallFails /\ event'.name = "refreshResponse")
          => /\ localStorage' = [access_token |-> Null,
                                 refresh_token |-> Null, user |-> Null]
             /\ location' = "/login"
             /\ delivered'.src = "refresh"]_vars
    /\ [][(/\ event'.name = "refreshResponse"
           /\ event'.before.op \in {"login", "register"}
           /\ event'.status = 200)
          => /\ localStorage'
                   = [localStorage EXCEPT !.access_token = event'.data.access]
             /\ location' = location]_vars

\* A login was answered 401 over a store that holds an access token and a
\* user but no refresh token, and the store is as it was.
C29_Witness ==
    /\ event.name = "response"
    /\ event.before.op = "login"
    /\ event.status = 401
    /\ delivered.kind = "error"
    /\ localStorage.access_token = "a0"
    /\ localStorage.refresh_token = Null
    /\ localStorage.user = JSONStringify("bob")
    /\ location = "/"

\* The flag and the user of the session store agree.
UserIffAuthenticated(st) == st.isAuthenticated <=> st.user # Null

\* C30 (as stated): in every reachable state of the session store,
\* isAuthenticated is true if and only if user is non-null.
C30_AlwaysUserIffAuthenticated == UserIffAuthenticated(authState)

\* C30 (amended): setUser, a successful login or register and logout leave
\* isAuthenticated true exactly when user is non-null, and every step other
\* than checkAuth and the store's creation keeps that agreement (a failed
\* login or register changes neither field).  The store's creation and
\* checkAuth take isAuthenticated from the access token alone and user from
\* the cached profile alone, so the two agree only when the credential store
\* holds both a non-empty access token and a parsable profile, or neither.
C30_UserIffAuthenticatedAfterWrites ==
    /\ [][event'.name \in {"setUser", "logout"}
          => UserIffAuthenticated(authState')]_vars
    /\ [][(/\ event'.name \in {"response", "refreshResponse"}
           /\ event'.before.op \in {"login", "register"}
           /\ delivered'.kind = "value")
          => /\ authState'.isAuthenticated
             /\ authState'.user = delivered'.data.user
             /\ authState'.user \in Users]_vars
    /\ [][(/\ event'.name \in {"response", "refreshResponse"}
           /\ event'.before.op \in {"login", "register"}
           /\ delivered'.kind # "value")
          => authState' = authState]_vars
    /\ [][(event'.name \notin {"checkAuth", "pageLoad"}
           /\ UserIffAuthenticated(authState))
          => UserIffAuthenticated(authState')]_vars
    /\ [][event'.name \in {"checkAuth", "pageLoad"}
          => /\ authState'.isAuthenticated
                   <=> localStorage.access_token \notin {Null, ""}
             /\ authState'.user # Null
                   <=> \E u \in Users : localStorage.user = JSONStringify(u)]_vars

\* setUser(null) over a credential store that holds an access token and no
\* profile: the store was created with the flag set and no user, and now both
\* fields say signed out.
C30_Witness ==
    /\ event.name = "setUser"
    /\ authState = [user |-> Null, isAuthenticated |-> FALSE]
    /\ localStorage.access_token = "a0"
    /\ localStorage.user = Null

\* The step is the arrival of a failed response to a request that was
\* re-issued after a successful refresh.
ReissueFails ==
    /\ event'.name = "response"
    /\ event'.before.sends = 2
    /\ event'.status # 200

\* C31: when the request re-issued after a successful refresh fails, with
\* 401 or any other status, that failure is rejected to the caller, no
\* further refresh is made, the credential store is left as it is (the
\* refreshed access token is not removed) and there is no redirect; among the
\* steps of the response interceptor only a failed refresh call removes
\* stored credentials or redirects.
C31_ReissueFailureKeepsStore ==
    /\ [][ReissueFails
          => /\ delivered' = Rejected(2, event'.status)
             /\ event'.after = NoReq
             /\ wire' = NoMsg
             /\ localStorage' = localStorage
             /\ location' = location]_vars
    /\ [][(/\ event'.name \in {"request", "response", "refreshResponse"}
           /\ \/ location' # location
              \/ \E k \in {"access_token", "refresh_token", "user"} :
                     localStorage[k] # Null /\ localStorage'[k] = Null)
          => /\ event'.name = "refreshResponse"
             /\ event'.status # 200]_vars

\* The re-issued request was answered 401 and rejected; the store still
\* holds the access token the refresh call returned, next to the refresh
\* token it was obtained with.
C31_Witness ==
    /\ event.name = "response"
    /\ event.before.sends = 2
    /\ event.before.refreshes = 1
    /\ event.status = 401
    /\ delivered = Rejected(2, 401)
    /\ localStorage.access_token \in AccessTokens
    /\ localStorage.refresh_token = "r0"
    /\ location = "/"

-----------------------------------------------------------------------------
(* Chat claims, continued *)

\* C32: if loading a conversation's history fails, the message sequence and
\* the tracked conversation id are left as they were before the load: the id
\* whose load failed is not adopted.  The load is issued only for an id that
\* differs from the tracked one, so when the failure arrives right after the
\* load was issued the tracked id is not the id of the load, and the messages
\* are those displayed before.
C32_FailedLoadAdoptsNothing ==
    [][(/\ cstep.name = "conversation"
        /\ cstep.call.url = "/chat/history/"
        /\ cstep'.name = "historyFailed"
        /\ cstep'.call = cstep.call)
       => /\ messages' = messages
          /\ currentConversationId' # cstep'.call.conversation_id]_vars

-----------------------------------------------------------------------------
(* File-list claims, continued *)

\* C33: when the server rejects a confirmed delete of file f, no list
\* reload is issued, the displayed list and the selection are unchanged (f
\* stays listed and stays selected if it was), an error message is recorded
\* and the pending-delete marker is cleared.
C33_RejectedDelete ==
    [][fstep'.name = "deleteFailed"
       => /\ fstep'.call.kind = "delete"
          /\ calls' = calls (-) SetToBag({fstep'.call})
          /\ files' = files
          /\ selectedFiles' = selectedFiles
          /\ backend' = backend
          /\ page' = page
          /\ loading' = loading
          /\ error' \in {"Network Error", "Failed to delete file"}
          /\ pendingDeleteId' = NoFile]_vars

\* The delete of a listed and selected file was rejected: the file is still
\* listed and selected, no call is in flight, the error is shown and no row
\* awaits confirmation.
C33_Witness ==
    /\ fstep.name = "deleteFailed"
    /\ fstep.call.f \in selectedFiles
    /\ fstep.call.f \in Ids(files)
    /\ fstep.call.f \in backend
    /\ calls = EmptyBag
    /\ error = "Network Error"
    /\ pendingDeleteId = NoFile

\* C34: the select-all toggle, for any selection and filter: if every
\* visible (filtered) file is selected the selection becomes empty, otherwise
\* it becomes exactly the ids of the visible files.
C34_SelectAllToggles ==
    [][fstep'.name = "selectAll"
       => selectedFiles'
            = IF \A x \in visibleFiles(files, filter) : x.id \in selectedFiles
              THEN {}
              ELSE {x.id : x \in visibleFiles(files, filter)}]_vars

====
